---- MODULE Spec2Model ----
(***************************************************************************)
(* pydle: the EventLoop wrapper of src/pydle/async.py, run on the asyncio  *)
(* reactor it wraps.  The reactor is modelled as asyncio runs it: a FIFO   *)
(* queue of ready handles, a set of timer handles, and iterations that run *)
(* the handles that were ready when the iteration began.  A task created   *)
(* by schedule_async is a coroutine that advances one step per handle.     *)
(***************************************************************************)
EXTENDS Integers, Sequences, FiniteSets, TLC

\* ---------------------------------------------------------------- bounds
\* The tasks schedule_async may make, and how far the clock may run.
MaxTasks == 3
MaxTime == 32

\* FUTURE_TIMEOUT, the value of self.future_timeout
FUTURE_TIMEOUT == 30

\* The futures on_future and run_until are given, and the delays and
\* intervals schedule_in and schedule_periodically are given.
Futures == {1}
Delays == {1}

\* The results a future is given by set_result.
Values == {1, 2}

VARIABLES
    tasks,            \* self._tasks: the tasks made by schedule_async, in order
    ready,            \* the reactor's queue of ready handles (FIFO)
    timers,           \* the reactor's scheduled timer handles
    now,              \* the reactor's monotonic clock
    running,          \* self.running: loop.is_running()
    stopping,         \* the reactor was asked to stop after this iteration
    batch,            \* handles left to run in the current iteration
    futures,          \* the Future objects: state, exception and result
    future_timeouts,  \* self._future_timeouts: future -> handle (0: no entry)
    main,             \* where the caller of run()/run_until() is
    inner,            \* run_until's inner coroutine: the future and its position
    stopCalled,       \* history: tasks that existed at some stop() call
    stopped,          \* history: tasks that existed at a stop() of the running loop
    race,             \* history, per future given to on_future: "early" when it
                      \* was done before its timeout elapsed, "timeout" when it
                      \* was pending as the timeout callback was called
    cb_calls,         \* history: calls of the callback given to on_future, per future
    outcome,          \* history: the last call made on a future that was done
    capabilities,     \* self._capabilities: capability name -> enabled
    users,            \* self.users: nickname -> user record
    handled           \* history: the last call the IRC client handled

vars == <<tasks, ready, timers, now, running, stopping, batch, futures,
          future_timeouts, main, inner, stopCalled, stopped, race,
          cb_calls, outcome, capabilities, users, handled>>

\* The state of the IRC client the event loop serves.
client == <<capabilities, users, handled>>

hist == <<stopCalled, stopped, race, cb_calls, outcome>>

\* The state of the event loop.
loop == <<tasks, ready, timers, now, running, stopping, batch, futures,
          future_timeouts, main, inner, hist>>

Handles == 1..Len(tasks)

\* ------------------------------------------------------------ scheduling
\* The part of the state the scheduling calls work on.
Sched == [tasks |-> tasks, ready |-> ready]

StepHandle(t) == [h |-> "step", t |-> t]

\* A task as asyncio.ensure_future makes it: pending, its first step queued.
\*   kind         which inner() wraps the callback: soon, in, periodically
\*   cb, arg      the callback: a user function, handle.cancel of arg, or
\*                the partial of _do_on_future made for future arg
\*   pc           start (coroutine not begun), sleep (in asyncio.sleep),
\*                wakeup (sleep over, step queued), wakeup_cancelled (sleep
\*                cancelled, step queued), end
\*   must_cancel  cancel() was requested and is delivered at the next step
\*   calls        how many times the callback was called
\*   raised       what the task's coroutine raised: none, error, cancelled
\*   reported     traceback.print_exc() reported an error of this task
NewTask(kind, cb, arg, when) ==
    [kind |-> kind, cb |-> cb, arg |-> arg, when |-> when, st |-> "pending",
     pc |-> "start", must_cancel |-> FALSE, calls |-> 0, raised |-> "none",
     reported |-> FALSE]

\* schedule_async with the new task's first step put before the queued ones.
schedule_async_front(S, task) ==
    [tasks |-> Append(S.tasks, task),
     ready |-> <<StepHandle(Len(S.tasks) + 1)>> \o S.ready]

schedule_async(S, task) ==
    [tasks |-> Append(S.tasks, task),
     ready |-> Append(S.ready, StepHandle(Len(S.tasks) + 1))]

schedule(S, cb, arg) == schedule_async(S, NewTask("soon", cb, arg, 0))

schedule_in(S, when, cb, arg) == schedule_async(S, NewTask("in", cb, arg, when))

schedule_periodically(S, interval, cb, arg) ==
    schedule_async(S, NewTask("periodically", cb, arg, interval))

\* Task.cancel(): nothing for a task that is done; a task suspended in a
\* pending sleep has the sleep cancelled and its wakeup queued; otherwise the
\* request is kept and delivered at the task's next step.
cancel(S, t) ==
    IF S.tasks[t].st # "pending" THEN S
    ELSE IF S.tasks[t].pc = "sleep"
         THEN [tasks |-> [S.tasks EXCEPT ![t].pc = "wakeup_cancelled"],
               ready |-> Append(S.ready, StepHandle(t))]
         ELSE [S EXCEPT !.tasks[t].must_cancel = TRUE]

is_scheduled(S, h) == S.tasks[h].st # "cancelled"

unschedule(S, h) == IF is_scheduled(S, h) THEN schedule(S, "cancel", h) ELSE S

RECURSIVE CancelFrom(_, _)
CancelFrom(S, i) ==
    IF i > Len(S.tasks) THEN S ELSE CancelFrom(cancel(S, i), i + 1)

\* _unschedule_all that cancels nothing.
unschedule_all_none(S) == S

unschedule_all(S) == CancelFrom(S, 1)

\* inner() with a bare except only: a cancellation is reported as an error.
inner_except_swallow(T, raised) ==
    [T EXCEPT !.st = "finished", !.pc = "end", !.raised = raised,
              !.reported = (raised # "none"), !.must_cancel = FALSE]

\* The try/except of schedule_async's inner(): what the coroutine raised
\* decides how the task ends.
inner_except(T, raised) ==
    IF raised = "cancelled"
    THEN [T EXCEPT !.st = "cancelled", !.pc = "end", !.raised = raised,
                   !.must_cancel = FALSE]
    ELSE [T EXCEPT !.st = "finished", !.pc = "end", !.raised = raised,
                   !.reported = (raised = "error"), !.must_cancel = FALSE]

\* The callback of task t is called: counted before its body runs.
Called(S, t) == [S EXCEPT !.tasks[t].calls = @ + 1]

\* The callback of task t is over, having raised `raised` (or "none").
Finish(S, t, raised) == [S EXCEPT !.tasks[t] = inner_except(@, raised)]

\* A new task needs room (the bound on the number of tasks).
Room == Len(tasks) < MaxTasks

\* -------------------------------------------------------------- futures
\* A future becoming done queues its done callbacks: here the wakeup of
\* run_until's inner coroutine, when it waits on that future.
WakeInner(f, rdy) ==
    IF inner.pc = "wait" /\ inner.f = f
    THEN <<[inner EXCEPT !.pc = "wakeup"], Append(rdy, [h |-> "inner", t |-> 0])>>
    ELSE <<inner, rdy>>

\* The timeout of task t has not elapsed: its sleep has not begun, or the
\* timer of its sleep is not due.
NotElapsed(t) ==
    /\ tasks[t].st = "pending"
    /\ \/ tasks[t].pc = "start"
       \/ tasks[t].pc = "sleep" /\ \E tm \in timers : tm.t = t /\ now < tm.due

\* asyncio.Future, which Future extends without overriding anything.  Each
\* call gives the future afterwards, what the call raises and what it
\* returns.  set_result and set_exception raise InvalidStateError on a
\* future that is not pending; cancel returns False on one.
set_result_overwrite(F, v) ==
    [fut |-> [st |-> "resolved", exc |-> "none", val |-> v],
     raised |-> "none", ret |-> "None"]

set_result(F, v) ==
    IF F.st # "pending"
    THEN [fut |-> F, raised |-> "InvalidStateError", ret |-> "none"]
    ELSE [fut |-> [st |-> "resolved", exc |-> "none", val |-> v],
          raised |-> "none", ret |-> "None"]

set_exception(F, e) ==
    IF F.st # "pending"
    THEN [fut |-> F, raised |-> "InvalidStateError", ret |-> "none"]
    ELSE [fut |-> [st |-> "failed", exc |-> e, val |-> 0],
          raised |-> "none", ret |-> "None"]

future_cancel(F) ==
    IF F.st # "pending"
    THEN [fut |-> F, raised |-> "none", ret |-> "False"]
    ELSE [fut |-> [st |-> "cancelled", exc |-> "none", val |-> 0],
          raised |-> "none", ret |-> "True"]

\* A call R that makes the pending future f done.
Settle(f, R) ==
    /\ futures[f].st = "pending"
    /\ futures' = [futures EXCEPT ![f] = R.fut]
    /\ inner' = WakeInner(f, ready)[1]
    /\ ready' = WakeInner(f, ready)[2]
    /\ race' = IF race[f] = "none" /\ future_timeouts[f] # 0
                  /\ NotElapsed(future_timeouts[f])
               THEN [race EXCEPT ![f] = "early"] ELSE race
    /\ UNCHANGED <<client, tasks, timers, now, running, stopping, batch,
                   future_timeouts, main, stopCalled, stopped, cb_calls,
                   outcome>>

SetResult(f) == \E v \in Values : Settle(f, set_result(futures[f], v))

SetException(f) == Settle(f, set_exception(futures[f], "Error"))

CancelFuture(f) == Settle(f, future_cancel(futures[f]))

\* A call R of operation op on the future f that is already done.  Such a
\* call queues nothing: the done callbacks were queued when f became done.
OnDone(f, op, R) ==
    /\ futures[f].st # "pending"
    /\ futures' = [futures EXCEPT ![f] = R.fut]
    /\ outcome' = [f |-> f, op |-> op, raised |-> R.raised, ret |-> R.ret]
    /\ UNCHANGED <<client, tasks, ready, timers, now, running, stopping, batch,
                   future_timeouts, main, inner, stopCalled, stopped, race,
                   cb_calls>>

SetResultDone(f) ==
    \E v \in Values : OnDone(f, "set_result", set_result(futures[f], v))

SetExceptionDone(f) ==
    OnDone(f, "set_exception", set_exception(futures[f], "Error"))

CancelFutureDone(f) == OnDone(f, "cancel", future_cancel(futures[f]))

\* ------------------------------------------------- calls from the caller
Idle == main = "idle" /\ ~running

Apply(S) == tasks' = S.tasks /\ ready' = S.ready

Schedule ==
    /\ Idle /\ Room
    /\ Apply(schedule(Sched, "user", 0))
    /\ UNCHANGED <<client, timers, now, running, stopping, batch, futures,
                   future_timeouts, main, inner, hist>>

ScheduleIn(when) ==
    /\ Idle /\ Room
    /\ Apply(schedule_in(Sched, when, "user", 0))
    /\ UNCHANGED <<client, timers, now, running, stopping, batch, futures,
                   future_timeouts, main, inner, hist>>

SchedulePeriodically(interval) ==
    /\ Idle /\ Room
    /\ Apply(schedule_periodically(Sched, interval, "user", 0))
    /\ UNCHANGED <<client, timers, now, running, stopping, batch, futures,
                   future_timeouts, main, inner, hist>>

Unschedule(h) ==
    /\ Idle
    /\ is_scheduled(Sched, h) => Room
    /\ Apply(unschedule(Sched, h))
    /\ UNCHANGED <<client, timers, now, running, stopping, batch, futures,
                   future_timeouts, main, inner, hist>>

\* on_future: the timeout task is made and entered in _future_timeouts; the
\* next line names `future`, which is no name of the module, and raises
\* NameError: no done callback is added to the future.  (One registration
\* per future is modelled.)
OnFuture(f) ==
    /\ Idle /\ Room
    /\ future_timeouts[f] = 0
    /\ Apply(schedule_in(Sched, FUTURE_TIMEOUT, "do_on_future", f))
    /\ future_timeouts' = [future_timeouts EXCEPT ![f] = Len(tasks) + 1]
    /\ race' = IF futures[f].st # "pending"
               THEN [race EXCEPT ![f] = "early"] ELSE race
    /\ UNCHANGED <<client, timers, now, running, stopping, batch, futures, main,
                   inner, stopCalled, stopped, cb_calls, outcome>>

\* stop() outside the running loop: self.running is false, nothing is done.
Stop ==
    /\ Idle
    /\ Handles # {}
    /\ stopCalled' = stopCalled \cup Handles
    /\ UNCHANGED <<client, tasks, ready, timers, now, running, stopping, batch,
                   futures, future_timeouts, main, inner, stopped, race,
                   cb_calls, outcome>>

Run ==
    /\ Idle
    /\ running' = TRUE
    /\ main' = "run"
    /\ UNCHANGED <<client, tasks, ready, timers, now, stopping, batch, futures,
                   future_timeouts, inner, hist>>

\* run_until: the inner coroutine becomes a task of the reactor (not one of
\* self._tasks) and the reactor runs until that task is done.
RunUntil(f) ==
    /\ Idle
    /\ inner.pc \in {"none", "end"}
    /\ inner' = [f |-> f, pc |-> "start", exit |-> "none"]
    /\ ready' = Append(ready, [h |-> "inner", t |-> 0])
    /\ running' = TRUE
    /\ main' = "run_until"
    /\ UNCHANGED <<client, tasks, timers, now, stopping, batch, futures,
                   future_timeouts, hist>>

\* -------------------------------------------------------------- reactor
Due == {tm \in timers : tm.due <= now}

\* Time passes, up to the moment a scheduled timer is due.
Tick ==
    /\ \E tm \in timers : now < tm.due /\ tm.due <= MaxTime /\ now' = tm.due
    /\ UNCHANGED <<client, tasks, ready, timers, running, stopping, batch, futures,
                   future_timeouts, main, inner, hist>>

\* An iteration begins by queueing the timers that are due, earliest first.
MoveTimer ==
    /\ running /\ batch = 0 /\ ~stopping
    /\ \E tm \in Due :
          /\ \A o \in Due : tm.due <= o.due
          /\ timers' = timers \ {tm}
          /\ ready' = Append(ready, [h |-> "timer", t |-> tm.t])
    /\ UNCHANGED <<client, tasks, now, running, stopping, batch, futures,
                   future_timeouts, main, inner, hist>>

\* ... and then runs the handles that are ready at that moment.
BeginBatch ==
    /\ running /\ batch = 0 /\ ~stopping
    /\ Due = {}
    /\ ready # <<>>
    /\ batch' = Len(ready)
    /\ UNCHANGED <<client, tasks, ready, timers, now, running, stopping, futures,
                   future_timeouts, main, inner, hist>>

\* After an iteration in which stop was asked, run_forever returns and the
\* caller goes on: run() returns; run_until returns or raises what its inner
\* task ended with (inner.exit), or RuntimeError when that task is not done.
Halt ==
    /\ running /\ batch = 0 /\ stopping
    /\ running' = FALSE
    /\ stopping' = FALSE
    /\ main' = "idle"
    /\ UNCHANGED <<client, tasks, ready, timers, now, batch, futures,
                   future_timeouts, inner, hist>>

Pop(kind) ==
    /\ running /\ batch > 0
    /\ Head(ready).h = kind
    /\ batch' = batch - 1

Rest == [tasks |-> tasks, ready |-> Tail(ready)]

\* The timer of a sleep: sets the sleep's result unless it was cancelled.
RunTimer ==
    /\ Pop("timer")
    /\ LET t == Head(ready).t IN
         IF tasks[t].st = "pending" /\ tasks[t].pc = "sleep"
         THEN /\ tasks' = [tasks EXCEPT ![t].pc = "wakeup"]
              /\ ready' = Append(Tail(ready), StepHandle(t))
         ELSE /\ tasks' = tasks
              /\ ready' = Tail(ready)
    /\ UNCHANGED <<client, timers, now, running, stopping, futures, future_timeouts,
                   main, inner, hist>>

\* The inner task of run_until is done: the done callback run_until_complete
\* added is queued, unless run_until_complete is over and has removed it.
InnerDone(rdy) ==
    IF main = "run_until" THEN Append(rdy, [h |-> "stop_cb", t |-> 0]) ELSE rdy

\* run_until's inner(): yield from future, then _unschedule_all().  A future
\* that failed or was cancelled raises out of the yield from.
RunInner ==
    /\ Pop("inner")
    /\ IF futures[inner.f].st = "pending"
       THEN /\ inner' = [inner EXCEPT !.pc = "wait"]
            /\ Apply(Rest)
       ELSE IF futures[inner.f].st = "resolved"
       THEN /\ inner' = [inner EXCEPT !.pc = "end", !.exit = "returned"]
            /\ tasks' = unschedule_all(Rest).tasks
            /\ ready' = InnerDone(unschedule_all(Rest).ready)
       ELSE /\ inner' = [inner EXCEPT !.pc = "end", !.exit = "raised"]
            /\ tasks' = tasks
            /\ ready' = InnerDone(Tail(ready))
    /\ UNCHANGED <<client, timers, now, running, stopping, futures, future_timeouts,
                   main, hist>>

\* run_until_complete's done callback stops the reactor.
RunStopCb ==
    /\ Pop("stop_cb")
    /\ stopping' = TRUE
    /\ ready' = Tail(ready)
    /\ UNCHANGED <<client, tasks, timers, now, running, futures, future_timeouts,
                   main, inner, hist>>

\* ------------------------------------------------------- steps of a task
\* The step of a task delivers a pending cancellation as CancelledError.
Throws(T) == T.must_cancel \/ T.pc = "wakeup_cancelled"

Step(t) ==
    /\ Pop("step")
    /\ t = Head(ready).t

\* CancelledError is thrown into the coroutine: sleep's finally cancels its
\* timer, inner() re-raises, and the task ends cancelled.
StepCancelled ==
    \E t \in Handles :
        /\ Step(t)
        /\ Throws(tasks[t])
        /\ tasks' = [tasks EXCEPT ![t].st = "cancelled", ![t].pc = "end",
                                  ![t].must_cancel = FALSE]
        /\ ready' = Tail(ready)
        /\ timers' = {tm \in timers : tm.t # t}
        /\ UNCHANGED <<client, now, running, stopping, futures, future_timeouts,
                       main, inner, hist>>

\* schedule_in's inner() begins: asyncio.sleep(_when) sets a timer.
StepSleep ==
    \E t \in Handles :
        /\ Step(t)
        /\ ~Throws(tasks[t])
        /\ tasks[t].kind = "in" /\ tasks[t].pc = "start"
        /\ tasks' = [tasks EXCEPT ![t].pc = "sleep"]
        /\ ready' = Tail(ready)
        /\ timers' = timers \cup {[t |-> t, due |-> now + tasks[t].when]}
        /\ UNCHANGED <<client, now, running, stopping, futures, future_timeouts,
                       main, inner, hist>>

\* schedule_periodically's inner() begins: asyncio.sleep(_when) names _when,
\* which no scope defines, and raises NameError before the callback is
\* called; schedule_async's inner() reports it and the task ends.
StepPeriodically ==
    \E t \in Handles :
        /\ Step(t)
        /\ ~Throws(tasks[t])
        /\ tasks[t].kind = "periodically" /\ tasks[t].pc = "start"
        /\ Apply(Finish(Rest, t, "error"))
        /\ UNCHANGED <<client, timers, now, running, stopping, futures,
                       future_timeouts, main, inner, hist>>

\* The step of task t calls its callback, which is `cb`.
Call(t, cb) ==
    /\ Step(t)
    /\ ~Throws(tasks[t])
    /\ \/ tasks[t].kind = "soon" /\ tasks[t].pc = "start"
       \/ tasks[t].kind = "in" /\ tasks[t].pc = "wakeup"
    /\ tasks[t].cb = cb

\* A user callback that returns (None).
CallReturn ==
    \E t \in Handles :
        /\ Call(t, "user")
        /\ Apply(Finish(Called(Rest, t), t, "none"))
        /\ UNCHANGED <<client, timers, now, running, stopping, futures,
                       future_timeouts, main, inner, hist>>

\* A user callback that raises an error other than a cancellation.
CallRaise ==
    \E t \in Handles :
        /\ Call(t, "user")
        /\ Apply(Finish(Called(Rest, t), t, "error"))
        /\ UNCHANGED <<client, timers, now, running, stopping, futures,
                       future_timeouts, main, inner, hist>>

\* A user callback that raises asyncio.CancelledError.
CallRaiseCancelled ==
    \E t \in Handles :
        /\ Call(t, "user")
        /\ Apply(Finish(Called(Rest, t), t, "cancelled"))
        /\ UNCHANGED <<client, timers, now, running, stopping, futures,
                       future_timeouts, main, inner, hist>>

\* A user callback that calls schedule() and returns.
CallSchedule ==
    \E t \in Handles :
        /\ Call(t, "user")
        /\ Room
        /\ Apply(Finish(schedule(Called(Rest, t), "user", 0), t, "none"))
        /\ UNCHANGED <<client, timers, now, running, stopping, futures,
                       future_timeouts, main, inner, hist>>

\* A user callback that calls unschedule(h), of its own handle or another.
CallUnschedule(h) ==
    \E t \in Handles :
        /\ Call(t, "user")
        /\ is_scheduled(Sched, h) => Room
        /\ Apply(Finish(unschedule(Called(Rest, t), h), t, "none"))
            /\ UNCHANGED <<client, timers, now, running, stopping, futures,
                       future_timeouts, main, inner, hist>>

\* A user callback that calls stop(): the loop is running, so every task is
\* cancelled and the reactor is asked to stop.
CallStop ==
    \E t \in Handles :
        /\ Call(t, "user")
        /\ Apply(Finish(unschedule_all(Called(Rest, t)), t, "none"))
        /\ stopping' = TRUE
        /\ stopCalled' = stopCalled \cup Handles
        /\ stopped' = stopped \cup Handles
        /\ UNCHANGED <<client, timers, now, running, futures, future_timeouts, main,
                       inner, race, cb_calls, outcome>>

\* The callback unschedule() scheduled: handle.cancel.
CallCancel ==
    \E t \in Handles :
        /\ Call(t, "cancel")
        /\ Apply(Finish(cancel(Called(Rest, t), tasks[t].arg), t, "none"))
        /\ UNCHANGED <<client, timers, now, running, stopping, futures,
                       future_timeouts, main, inner, hist>>

\* _do_on_future(callback, args, kwargs, future), on the record D of what it
\* reads and writes.  D.raised is what the call raises.
do_on_future(D, f) ==
    IF D.futures[f].st = "pending"
    THEN [D EXCEPT !.futures[f] = set_exception(@, "TimeoutError").fut,
                   !.future_timeouts[f] = 0,
                   !.cb_calls[f] = @ + 1]
    ELSE IF D.futures[f].st = "cancelled"
    THEN [D EXCEPT !.raised = "cancelled"]
    ELSE IF D.futures[f].exc = "TimeoutError"
    THEN D
    ELSE [D EXCEPT !.S = unschedule(D.S, D.future_timeouts[f]),
                   !.future_timeouts[f] = 0,
                   !.cb_calls[f] = @ + 1]

\* The partial on_future made binds callback, args and kwargs; the call
\* must supply the future.  Called with nargs = 0 it raises TypeError.
partial_do_on_future(D, f, nargs) ==
    IF nargs = 1 THEN do_on_future(D, f) ELSE [D EXCEPT !.raised = "error"]

\* The timeout task of on_future calls its callback: schedule_in's inner()
\* calls _callback(*_args, **_kwargs) with the empty _args on_future gave.
CallDoOnFuture ==
    \E t \in Handles :
        /\ Call(t, "do_on_future")
        /\ LET f == tasks[t].arg
               D == partial_do_on_future(
                        [S |-> Called(Rest, t), futures |-> futures,
                         future_timeouts |-> future_timeouts,
                         cb_calls |-> cb_calls, raised |-> "none"], f, 0)
           IN /\ Apply(Finish(D.S, t, D.raised))
              /\ futures' = D.futures
              /\ future_timeouts' = D.future_timeouts
              /\ cb_calls' = D.cb_calls
              /\ race' = IF futures[f].st = "pending"
                         THEN [race EXCEPT ![f] = "timeout"] ELSE race
        /\ UNCHANGED <<client, timers, now, running, stopping, main, inner,
                       stopCalled, stopped, outcome>>

\* ------------------------------------------- the IRCv3.1 client features
\* src/pydle/features/ircv3_1.py.  A handler runs to its end in one step: it
\* is synchronous.  The client it extends is not part of this source: its
\* _create_user, _sync_user, on_raw_join and _construct_message, and
\* protocol.parse_user, are modelled from the specification.
NO_ACCOUNT == "*"

\* Python's None.
None == "None"

CAPABILITIES == {"account-notify", "away-notify", "extended-join"}

\* The registries negotiation may leave: a capability is absent, or entered
\* as enabled or as not enabled.
Registries == UNION {[S -> BOOLEAN] : S \in SUBSET CAPABILITIES}

Nicks == {"ann", "bob"}

\* The source of a message, "nick!user@host", as protocol.parse_user reads it.
Source(n) == [nick |-> n, user |-> "user", host |-> "host"]

parse_user(source) == <<source.nick, source.user, source.host>>

Message(source, command, params) ==
    [source |-> source, command |-> command, params |-> params]

AccountMessages ==
    {Message(Source(n), "ACCOUNT", <<a>>) : n \in Nicks, a \in {NO_ACCOUNT, "acct"}}

AwayMessages ==
    {Message(Source(n), "AWAY", ps) : n \in Nicks, ps \in {<<>>, <<"lunch">>}}

\* JOIN as a server sends it when extended-join is enabled, and when not.
ExtendedJoinMessages ==
    {Message(Source(n), "JOIN", <<"#chan", a, "Real Name">>) :
         n \in Nicks, a \in {NO_ACCOUNT, "acct"}}

PlainJoinMessages == {Message(Source(n), "JOIN", <<"#chan">>) : n \in Nicks}

\* d[k] = v, of a Python dict d.
SetItem(d, k, v) == [x \in DOMAIN d \cup {k} |-> IF x = k THEN v ELSE d[x]]

\* 'c' in self._capabilities and self._capabilities['c']
Enabled(c) == c \in DOMAIN capabilities /\ capabilities[c]

\* What a handler works on: the directory, and what is observed of the
\* call: the calls of _sync_user, the messages given to the base JOIN
\* handler, and what the call raises.
Call0 == [users |-> users, syncs |-> 0, base |-> <<>>, raised |-> "none"]

\* The base client's _create_user: a record with no identity yet.
base_create_user(D, nickname) ==
    [D EXCEPT !.users = SetItem(@, nickname,
                            [nickname |-> nickname, username |-> None,
                             hostname |-> None, realname |-> None])]

\* _create_user: the second operand of `or` is evaluated when account-notify
\* is not enabled, and when 'extended-join' is in the registry it reads
\* self._capabilites, an attribute the client does not have.
_create_user(D, nickname) ==
    LET B == base_create_user(D, nickname) IN
    IF Enabled("account-notify")
    THEN [B EXCEPT !.users[nickname] = SetItem(@, "account", None)]
    ELSE IF "extended-join" \in DOMAIN capabilities
    THEN [B EXCEPT !.raised = "AttributeError"]
    ELSE B

\* The base client's _sync_user: the record is made when the nickname is
\* not known yet, and its identity is set to the one given.
_sync_user(D, nick, user, host) ==
    LET S == [D EXCEPT !.syncs = @ + 1]
        C == IF nick \in DOMAIN S.users THEN S ELSE _create_user(S, nick)
    IN IF C.raised # "none" THEN C
       ELSE [C EXCEPT !.users[nick].username = user,
                      !.users[nick].hostname = host]

_construct_message(command, params, source) == Message(source, command, params)

\* The base client's on_raw_join: the user of the source becomes known.
\* (Channel membership is not modelled.)
base_on_raw_join(D, message) ==
    LET B == [D EXCEPT !.base = Append(@, message)]
        p == parse_user(message.source)
    IN _sync_user(B, p[1], p[2], p[3])

on_raw_account_literal(D, message) ==
    IF ~Enabled("account-notify") THEN D
    ELSE LET p == parse_user(message.source)
             nick == p[1]
             account == message.params[1]
         IN IF nick \notin DOMAIN D.users THEN D
            ELSE LET S == _sync_user(D, nick, p[2], p[3]) IN
                 IF S.raised # "none" THEN S
                 ELSE [S EXCEPT !.users[nick] = SetItem(@, "account", account)]

on_raw_account_unknown(D, message) ==
    IF ~Enabled("account-notify") THEN D
    ELSE LET p == parse_user(message.source)
             nick == p[1]
             account == message.params[1]
         IN LET S == _sync_user(D, nick, p[2], p[3]) IN
            IF S.raised # "none" THEN S
            ELSE [S EXCEPT !.users[nick] =
                     SetItem(@, "account",
                             IF account = NO_ACCOUNT THEN None ELSE account)]

on_raw_account(D, message) ==
    IF ~Enabled("account-notify") THEN D
    ELSE LET p == parse_user(message.source)
             nick == p[1]
             account == message.params[1]
         IN IF nick \notin DOMAIN D.users THEN D
            ELSE LET S == _sync_user(D, nick, p[2], p[3]) IN
                 IF S.raised # "none" THEN S
                 ELSE [S EXCEPT !.users[nick] =
                          SetItem(@, "account",
                                  IF account = NO_ACCOUNT THEN None
                                  ELSE account)]

\* The two assignments of on_raw_away.
SetAway(S, nick, params) ==
    [S EXCEPT !.users[nick] =
         SetItem(SetItem(@, "away", Len(params) > 0), "away_message",
                 IF Len(params) > 0 THEN params[1] ELSE None)]

on_raw_away_ungated(D, message) ==
    LET p == parse_user(message.source)
        nick == p[1]
    IN IF nick \notin DOMAIN D.users THEN D
       ELSE LET S == _sync_user(D, nick, p[2], p[3]) IN
            IF S.raised # "none" THEN S
            ELSE SetAway(S, nick, message.params)

on_raw_away_always(D, message) ==
    IF ~Enabled("away-notify") THEN D
    ELSE LET p == parse_user(message.source)
             nick == p[1]
         IN IF nick \notin DOMAIN D.users THEN D
            ELSE LET S == _sync_user(D, nick, p[2], p[3]) IN
                 IF S.raised # "none" THEN S
                 ELSE [S EXCEPT !.users[nick] =
                          SetItem(SetItem(@, "away", TRUE), "away_message",
                                  IF Len(message.params) > 0
                                  THEN message.params[1] ELSE None)]

on_raw_away(D, message) ==
    IF ~Enabled("away-notify") THEN D
    ELSE LET p == parse_user(message.source)
             nick == p[1]
         IN IF nick \notin DOMAIN D.users THEN D
            ELSE LET S == _sync_user(D, nick, p[2], p[3]) IN
                 IF S.raised # "none" THEN S
                 ELSE SetAway(S, nick, message.params)

\* on_raw_join.  `channels, account, realname = message.params` raises
\* ValueError unless there are three parameters.
on_raw_join(D, message) ==
    IF Enabled("extended-join")
    THEN IF Len(message.params) # 3 THEN [D EXCEPT !.raised = "ValueError"]
         ELSE
         LET p == parse_user(message.source)
             nick == p[1]
             channels == message.params[1]
             account == message.params[2]
             realname == message.params[3]
             S == _sync_user(D, nick, p[2], p[3])
             fakemsg == _construct_message("JOIN", <<channels>>, message.source)
             J == base_on_raw_join(S, fakemsg)
         IN IF S.raised # "none" THEN S
            ELSE IF J.raised # "none" THEN J
            ELSE [J EXCEPT !.users[nick] =
                     SetItem(SetItem(@, "account",
                                     IF account = NO_ACCOUNT THEN None
                                     ELSE account),
                             "realname", realname)]
    ELSE base_on_raw_join(D, message)

\* The calls, as steps of the client.
Handle(cmd, source, params, D) ==
    /\ users' = D.users
    /\ handled' = [cmd |-> cmd, source |-> source, params |-> params,
                   syncs |-> D.syncs, base |-> D.base, raised |-> D.raised]
    /\ UNCHANGED <<capabilities, loop>>

\* The base client learns of a nickname (the directory is seeded).
CreateUser(n) ==
    /\ n \notin DOMAIN users
    /\ Handle("_create_user", [nick |-> n], <<>>, _create_user(Call0, n))

RawAccount(m) ==
    Handle(m.command, m.source, m.params, on_raw_account(Call0, m))

RawAway(m) ==
    Handle(m.command, m.source, m.params, on_raw_away(Call0, m))

\* A server sends JOIN without account and realname only when extended-join
\* is not enabled.
RawJoin(m) ==
    /\ Len(m.params) = 3 \/ ~Enabled("extended-join")
    /\ Handle(m.command, m.source, m.params, on_raw_join(Call0, m))

\* ------------------------------------------------------ the specification
LoopInit ==
    /\ tasks = <<>>
    /\ ready = <<>>
    /\ timers = {}
    /\ now = 0
    /\ running = FALSE
    /\ stopping = FALSE
    /\ batch = 0
    /\ futures = [f \in Futures |->
                      [st |-> "pending", exc |-> "none", val |-> 0]]
    /\ future_timeouts = [f \in Futures |-> 0]
    /\ main = "idle"
    /\ inner = [f |-> 1, pc |-> "none", exit |-> "none"]
    /\ stopCalled = {}
    /\ stopped = {}
    /\ race = [f \in Futures |-> "none"]
    /\ cb_calls = [f \in Futures |-> 0]
    /\ outcome = [f |-> 0, op |-> "none", raised |-> "none", ret |-> "none"]

\* The client after negotiation left the registry caps: it knows no user.
ClientInit(caps) ==
    /\ capabilities = caps
    /\ users = [n \in {} |-> [nickname |-> n]]
    /\ handled = [cmd |-> "none", source |-> [nick |-> "none"], params |-> <<>>,
                  syncs |-> 0, base |-> <<>>, raised |-> "none"]

\* The state after construction: nothing is negotiated.
Init == LoopInit /\ ClientInit([c \in {} |-> TRUE])

\* The scheduler: schedule*, unschedule, stop and run, and the reactor.
SchedNext ==
    \/ Schedule
    \/ \E d \in Delays : ScheduleIn(d)
    \/ \E d \in Delays : SchedulePeriodically(d)
    \/ \E h \in Handles : Unschedule(h)
    \/ Stop
    \/ Run
    \/ Tick
    \/ MoveTimer
    \/ BeginBatch
    \/ Halt
    \/ RunTimer
    \/ StepCancelled
    \/ StepSleep
    \/ StepPeriodically
    \/ CallReturn
    \/ CallRaise
    \/ CallRaiseCancelled
    \/ CallSchedule
    \/ \E h \in Handles : CallUnschedule(h)
    \/ CallStop
    \/ CallCancel

\* Futures: on_future, run_until, and the futures becoming done.
FutureNext ==
    \/ \E f \in Futures : OnFuture(f)
    \/ \E f \in Futures : RunUntil(f)
    \/ \E f \in Futures : SetResult(f)
    \/ \E f \in Futures : SetException(f)
    \/ \E f \in Futures : CancelFuture(f)
    \/ RunInner
    \/ RunStopCb
    \/ CallDoOnFuture

Next == SchedNext \/ FutureNext

\* The whole event loop.
Spec == Init /\ [][Next]_vars

\* The event loop of a program that uses no future.
SchedSpec == Init /\ [][SchedNext]_vars

\* Futures that are set, failed and cancelled, also when they are done
\* already, by a program that waits for them with run_until and schedules
\* nothing.
DoneNext ==
    \/ \E f \in Futures : RunUntil(f)
    \/ \E f \in Futures : SetResult(f)
    \/ \E f \in Futures : SetException(f)
    \/ \E f \in Futures : CancelFuture(f)
    \/ \E f \in Futures : SetResultDone(f)
    \/ \E f \in Futures : SetExceptionDone(f)
    \/ \E f \in Futures : CancelFutureDone(f)
    \/ BeginBatch
    \/ Halt
    \/ RunInner
    \/ RunStopCb

FutureSpec == Init /\ [][DoneNext]_vars

\* The IRCv3.1 client after capability negotiation, whatever it left in the
\* registry: users become known and ACCOUNT, AWAY and JOIN messages come in.
IrcInit == LoopInit /\ \E caps \in Registries : ClientInit(caps)

IrcNext ==
    \/ \E n \in Nicks : CreateUser(n)
    \/ \E m \in AccountMessages : RawAccount(m)
    \/ \E m \in AwayMessages : RawAway(m)
    \/ \E m \in ExtendedJoinMessages \cup PlainJoinMessages : RawJoin(m)

IrcSpec == IrcInit /\ [][IrcNext]_vars

\* ---------------------------------------------------------------- claims
\* The timeout task on_future made for future f.
TimeoutTasks(f) ==
    {t \in Handles : tasks[t].cb = "do_on_future" /\ tasks[t].arg = f}

\* unschedule(h) was called while h was scheduled: its handle.cancel exists.
Unscheduled(h) == \E u \in Handles : tasks[u].cb = "cancel" /\ tasks[u].arg = h

\* A cancellation of task t was requested or delivered.
CancelRequested(T) == T.st = "cancelled" \/ (T.st = "pending" /\ Throws(T))

\* C1: for every on_future(f, cb) registration cb is invoked exactly once:
\* never twice, and once the future is terminal and the timeout task is
\* over (nothing is left that could invoke it) it has been invoked once.
C1_CallbackExactlyOnce ==
    \A f \in Futures : \A t \in TimeoutTasks(f) :
        /\ cb_calls[f] <= 1
        /\ (futures[f].st # "pending" /\ tasks[t].st # "pending")
               => cb_calls[f] = 1

\* C2: a future still pending when the timeout callback is called is failed
\* with TimeoutError and its entry leaves _future_timeouts.
C2_TimeoutFailsFuture ==
    \A f \in Futures :
        race[f] = "timeout" =>
            /\ futures[f].st = "failed" /\ futures[f].exc = "TimeoutError"
            /\ future_timeouts[f] = 0

\* C3: when a future registered with on_future was terminal before its
\* timeout elapsed, the timeout task never fires: its callback is not called.
C3_TimeoutCancelled ==
    [][\A f \in Futures : \A t \in TimeoutTasks(f) :
          race[f] = "early" => tasks'[t].calls = tasks[t].calls]_vars

\* C4: once unschedule(h) has been called, the callback of h is never
\* invoked again.
C4_NoCallAfterUnschedule ==
    [][\A h \in Handles :
          Unscheduled(h) => tasks'[h].calls = tasks[h].calls]_vars

\* C5 (as claimed): after a stop() call, in whatever state the reactor was,
\* no callback of a task scheduled before that call is invoked.
C5_NoCallAfterAnyStop ==
    [][\A t \in stopCalled : tasks'[t].calls = tasks[t].calls]_vars

\* C5 (amended): after a stop() call made while the reactor is running,
\* every task scheduled before that call is done or has its cancellation
\* requested, and no callback of such a task is invoked again.
C5_NoCallAfterStopOfRunningLoop ==
    /\ [](\A t \in stopped :
             tasks[t].st # "pending" \/ CancelRequested(tasks[t]))
    /\ [][\A t \in stopped : tasks'[t].calls = tasks[t].calls]_vars

\* C5 witness: the loop has halted after a stop() and a task that was
\* scheduled before it ended cancelled without its callback being called.
C5_Witness ==
    /\ ~running
    /\ \E t \in stopped : tasks[t].st = "cancelled" /\ tasks[t].calls = 0
    /\ \E t \in stopped : tasks[t].calls = 1

\* C6: when run_until returns or raises, for a future that is resolved,
\* failed or cancelled, every task is done or cancelled (or has at least
\* had its cancellation requested).
C6_RunUntilCancelsAll ==
    [][(main = "run_until" /\ main' = "idle" /\ futures[inner.f].st # "pending")
          => \A t \in Handles :
                tasks'[t].st # "pending" \/ CancelRequested(tasks'[t])]_vars

\* C7: a periodic task invokes its callback once per interval and goes on
\* doing so: it does not end, uncancelled, in a step that does not call
\* its callback.
C7_PeriodicKeepsInvoking ==
    [][\A t \in Handles :
          (tasks[t].kind = "periodically" /\ tasks[t].st = "pending"
              /\ tasks'[t].st = "finished")
              => tasks'[t].calls > tasks[t].calls]_vars

\* C8: a periodic task is armed until a call of its callback returns False
\* or raises: one that is over and was not cancelled has had such a call.
C8_PeriodicArmedUntilStop ==
    \A t \in Handles :
        (tasks[t].kind = "periodically" /\ tasks[t].st = "finished")
            => tasks[t].calls >= 1 /\ tasks[t].raised \in {"error", "false"}

\* C9: an error raised in a callback given to schedule or schedule_in is
\* reported and the task is over, the reactor keeps running and the other
\* tasks and their queued steps are untouched; a cancellation raised in it
\* is not reported and leaves the task cancelled.
C9_ErrorsReportedCancellationKept ==
    /\ [](\A t \in Handles :
             tasks[t].kind \in {"soon", "in"} =>
                 /\ tasks[t].raised = "error" =>
                        tasks[t].st = "finished" /\ tasks[t].reported
                 /\ tasks[t].raised = "cancelled" =>
                        tasks[t].st = "cancelled" /\ ~tasks[t].reported)
    /\ [][\A t \in Handles :
             (tasks[t].kind \in {"soon", "in"} /\ tasks'[t].raised = "error"
                 /\ tasks[t].raised = "none")
                 => /\ running' /\ stopping' = stopping
                    /\ ready' = Tail(ready)
                    /\ Len(tasks') = Len(tasks)
                    /\ \A u \in Handles \ {t} : tasks'[u] = tasks[u]]_vars

\* C9 witness: a callback raised an error that was reported, and a task
\* scheduled after it had its callback called, which raised a cancellation.
C9_Witness ==
    /\ running
    /\ \E t, u \in Handles :
          /\ t < u
          /\ tasks[t].kind = "soon" /\ tasks[u].kind = "soon"
          /\ tasks[t].raised = "error" /\ tasks[t].reported
          /\ tasks[u].calls = 1 /\ tasks[u].raised = "cancelled"
          /\ tasks[u].st = "cancelled"

\* C10: a callback given to schedule() is not called in the step that
\* schedules it, and callbacks given to schedule() are called in the order
\* of the schedule() calls: when one is called, every earlier one is over.
C10_ScheduleIsDeferredAndOrdered ==
    [][/\ \A t \in 1..Len(tasks') : t > Len(tasks) => tasks'[t].calls = 0
       /\ \A t \in Handles :
             (tasks[t].kind = "soon" /\ tasks'[t].calls > tasks[t].calls)
                 => \A u \in 1..(t - 1) :
                        tasks[u].kind = "soon" => tasks[u].pc = "end"]_vars

\* C10 witness: three callbacks were given to schedule() and all three have
\* been called.
C10_Witness ==
    /\ Len(tasks) = 3
    /\ \A t \in Handles :
          tasks[t].kind = "soon" /\ tasks[t].cb = "user" /\ tasks[t].calls = 1

\* C16: unschedule is idempotent.  A call of unschedule that makes a task
\* (the one that will call handle.cancel) is a call on a handle that is
\* still pending and was not unscheduled before: a call on a handle that
\* has fired or was cancelled, or a second call, makes no new task.
C16_UnscheduleIdempotent ==
    [][\A u \in 1..Len(tasks') :
          (u > Len(tasks) /\ tasks'[u].cb = "cancel")
              => /\ tasks[tasks'[u].arg].st = "pending"
                 /\ ~Unscheduled(tasks'[u].arg)]_vars

\* C17: the outstanding-task set self._tasks holds exactly the pending
\* tasks: a task that completed or was cancelled is no longer in it.
C17_TasksExactlyPending == \A t \in Handles : tasks[t].st = "pending"

\* C19: is_scheduled(h) is true exactly while h is still scheduled: false
\* for a cancelled handle and for a handle whose task has run to its end.
C19_IsScheduledWhilePending ==
    \A h \in Handles : is_scheduled(Sched, h) <=> tasks[h].st = "pending"

\* C11: a done future is final.  A future that is resolved, failed or
\* cancelled keeps its state, its result and its exception in every step;
\* set_result and set_exception on it raise InvalidStateError, and cancel
\* on it raises nothing (it returns False).
C11_DoneFutureIsFinal ==
    [][\A f \in Futures :
          futures[f].st # "pending" =>
              /\ futures'[f] = futures[f]
              /\ (outcome' # outcome /\ outcome'.f = f) =>
                     IF outcome'.op = "cancel"
                     THEN outcome'.raised = "none" /\ outcome'.ret = "False"
                     ELSE outcome'.raised = "InvalidStateError"]_vars

\* set_result was called on a future that was resolved already.
C11_Witness ==
    /\ outcome.op = "set_result"
    /\ outcome.raised = "InvalidStateError"
    /\ futures[1].st = "resolved"

\* C12: with account-notify enabled, an ACCOUNT message for a known user
\* resyncs the identity of that user and sets the account of the record to
\* None when the parameter is "*" and to the parameter otherwise; no record
\* is added and no other record changes.
C12_AccountNotify ==
    [][(/\ handled'.cmd = "ACCOUNT"
        /\ Enabled("account-notify")
        /\ handled'.source.nick \in DOMAIN users) =>
           LET n == handled'.source.nick
               a == handled'.params[1]
           IN /\ DOMAIN users' = DOMAIN users
              /\ handled'.syncs = 1
              /\ users'[n].username = handled'.source.user
              /\ users'[n].hostname = handled'.source.host
              /\ "account" \in DOMAIN users'[n]
              /\ users'[n].account = (IF a = NO_ACCOUNT THEN None ELSE a)
              /\ \A o \in DOMAIN users \ {n} : users'[o] = users[o]]_vars

\* ACCOUNT * was handled for a known user, with another user in the
\* directory.
C12_Witness ==
    /\ handled.cmd = "ACCOUNT" /\ handled.params = <<NO_ACCOUNT>>
    /\ Enabled("account-notify")
    /\ handled.syncs = 1
    /\ DOMAIN users = Nicks
    /\ users[handled.source.nick].account = None

\* C13: with extended-join enabled, a JOIN with the parameters channels,
\* account and realname gives the base JOIN handler exactly one message,
\* JOIN with the channels as its only parameter and the source of the
\* original, and afterwards the record of the user has that realname and
\* that account (None for "*").  With extended-join not enabled the base
\* handler is given the original message and the handler writes no account
\* and no realname.
C13_ExtendedJoin ==
    [][handled'.cmd = "JOIN" =>
           LET n == handled'.source.nick
               ps == handled'.params
           IN IF Enabled("extended-join")
              THEN /\ handled'.base =
                          <<Message(handled'.source, "JOIN", <<ps[1]>>)>>
                   /\ n \in DOMAIN users'
                   /\ users'[n].realname = ps[3]
                   /\ "account" \in DOMAIN users'[n]
                   /\ users'[n].account =
                          (IF ps[2] = NO_ACCOUNT THEN None ELSE ps[2])
              ELSE /\ handled'.base = <<Message(handled'.source, "JOIN", ps)>>
                   /\ \A o \in DOMAIN users :
                          /\ users'[o].realname = users[o].realname
                          /\ "account" \in DOMAIN users'[o]
                                 <=> "account" \in DOMAIN users[o]
                          /\ "account" \in DOMAIN users[o]
                                 => users'[o].account = users[o].account]_vars

\* C14: with away-notify enabled, an AWAY message for a known user sets
\* away to true and away_message to the first parameter when there is a
\* parameter, and away to false and away_message to None when there is
\* none.
C14_AwayNotify ==
    [][(/\ handled'.cmd = "AWAY"
        /\ Enabled("away-notify")
        /\ handled'.source.nick \in DOMAIN users) =>
           LET n == handled'.source.nick
               ps == handled'.params
           IN /\ {"away", "away_message"} \subseteq DOMAIN users'[n]
              /\ users'[n].away = (Len(ps) > 0)
              /\ users'[n].away_message =
                     (IF Len(ps) > 0 THEN ps[1] ELSE None)]_vars

\* AWAY without a parameter was handled for a known user.
C14_Witness ==
    /\ handled.cmd = "AWAY" /\ handled.params = <<>>
    /\ Enabled("away-notify")
    /\ handled.syncs = 1
    /\ users[handled.source.nick].away = FALSE
    /\ users[handled.source.nick].away_message = None

\* C15: an ACCOUNT message without account-notify enabled, and an AWAY
\* message without away-notify enabled, is ignored: the directory is left
\* as it is (no account, away or away_message field appears), _sync_user is
\* not called and nothing is raised.
C15_GatedMessageIgnored ==
    [][(\/ handled'.cmd = "ACCOUNT" /\ ~Enabled("account-notify")
        \/ handled'.cmd = "AWAY" /\ ~Enabled("away-notify")) =>
           /\ users' = users
           /\ handled'.syncs = 0
           /\ handled'.raised = "none"]_vars

\* AWAY was ignored for a known user: away-notify is entered as not enabled.
C15_Witness ==
    /\ handled.cmd = "AWAY" /\ handled.params = <<"lunch">>
    /\ "away-notify" \in DOMAIN capabilities /\ ~capabilities["away-notify"]
    /\ handled.source.nick \in DOMAIN users
    /\ "away" \notin DOMAIN users[handled.source.nick]

\* C18: _create_user(nickname) raises nothing whatever the registry holds,
\* and the record it makes has the field account, None, exactly when
\* account-notify or extended-join is enabled.
C18_CreateUserAccountField ==
    [][handled'.cmd = "_create_user" =>
           LET n == handled'.source.nick IN
           /\ handled'.raised = "none"
           /\ n \in DOMAIN users'
           /\ "account" \in DOMAIN users'[n]
                  <=> (Enabled("account-notify") \/ Enabled("extended-join"))
           /\ "account" \in DOMAIN users'[n] => users'[n].account = None]_vars

\* C20: an ACCOUNT or AWAY message from a nickname that is not in the
\* directory is dropped, also when its capability is enabled: no record is
\* made, _sync_user is not called and the records there are stay as they
\* are.
C20_UnknownNickDropped ==
    [][(/\ handled'.cmd \in {"ACCOUNT", "AWAY"}
        /\ handled'.source.nick \notin DOMAIN users) =>
           /\ users' = users
           /\ handled'.syncs = 0]_vars

\* ACCOUNT was dropped with account-notify enabled: its nickname is not
\* known, another is.
C20_Witness ==
    /\ handled.cmd = "ACCOUNT"
    /\ Enabled("account-notify")
    /\ handled.source.nick \notin DOMAIN users
    /\ users # <<>>

====
